---- MODULE Spec2Model ----
EXTENDS Integers, Sequences, FiniteSets, TLC

(***************************************************************************)
(* Values of the Python program.                                           *)
(***************************************************************************)
NoneV == "None"
\* None in a field that otherwise holds an int
NoneInt == -1

\* str.lower() / str.upper() over the word alphabet of the model: every
\* keyword and name the inputs use, in lower, upper and capitalised spelling;
\* strings outside the table are returned unchanged
CaseTable == {
  [lo |-> "select", up |-> "SELECT", cap |-> "Select"],
  [lo |-> "from", up |-> "FROM", cap |-> "From"],
  [lo |-> "where", up |-> "WHERE", cap |-> "Where"],
  [lo |-> "with", up |-> "WITH", cap |-> "With"],
  [lo |-> "as", up |-> "AS", cap |-> "As"],
  [lo |-> "exists", up |-> "EXISTS", cap |-> "Exists"],
  [lo |-> "in", up |-> "IN", cap |-> "In"],
  [lo |-> "any", up |-> "ANY", cap |-> "Any"],
  [lo |-> "all", up |-> "ALL", cap |-> "All"],
  [lo |-> "some", up |-> "SOME", cap |-> "Some"],
  [lo |-> "not", up |-> "NOT", cap |-> "Not"],
  [lo |-> "and", up |-> "AND", cap |-> "And"],
  [lo |-> "or", up |-> "OR", cap |-> "Or"],
  [lo |-> "on", up |-> "ON", cap |-> "On"],
  [lo |-> "join", up |-> "JOIN", cap |-> "Join"],
  [lo |-> "group by", up |-> "GROUP BY", cap |-> "Group by"],
  [lo |-> "group  by", up |-> "GROUP  BY", cap |-> "Group  by"],
  [lo |-> "order by", up |-> "ORDER BY", cap |-> "Order by"],
  [lo |-> "having", up |-> "HAVING", cap |-> "Having"],
  [lo |-> "limit", up |-> "LIMIT", cap |-> "Limit"],
  [lo |-> "table", up |-> "TABLE", cap |-> "Table"],
  [lo |-> "view", up |-> "VIEW", cap |-> "View"],
  [lo |-> "create", up |-> "CREATE", cap |-> "Create"],
  [lo |-> "int", up |-> "INT", cap |-> "Int"],
  [lo |-> "numeric", up |-> "NUMERIC", cap |-> "Numeric"],
  [lo |-> "decimal", up |-> "DECIMAL", cap |-> "Decimal"],
  [lo |-> "varchar", up |-> "VARCHAR", cap |-> "Varchar"],
  [lo |-> "x", up |-> "X", cap |-> "X"],
  [lo |-> "y", up |-> "Y", cap |-> "Y"],
  [lo |-> "z", up |-> "Z", cap |-> "Z"],
  [lo |-> "t", up |-> "T", cap |-> "T"],
  [lo |-> "u", up |-> "U", cap |-> "U"],
  [lo |-> "f", up |-> "F", cap |-> "F"],
  [lo |-> "g", up |-> "G", cap |-> "G"],
  [lo |-> "a", up |-> "A", cap |-> "A"],
  [lo |-> "b", up |-> "B", cap |-> "B"],
  [lo |-> "id", up |-> "ID", cap |-> "Id"],
  [lo |-> "users", up |-> "USERS", cap |-> "Users"],
  [lo |-> "sch", up |-> "SCH", cap |-> "Sch"],
  [lo |-> "other", up |-> "OTHER", cap |-> "Other"],
  [lo |-> "public", up |-> "PUBLIC", cap |-> "Public"],
  [lo |-> "none", up |-> "NONE", cap |-> "None"],
  [lo |-> "schema", up |-> "SCHEMA", cap |-> "Schema"]}

Lower(s) ==
  IF \E r \in CaseTable : s \in {r.lo, r.up, r.cap}
  THEN (CHOOSE r \in CaseTable : s \in {r.lo, r.up, r.cap}).lo
  ELSE s

Upper(s) ==
  IF \E r \in CaseTable : s \in {r.lo, r.up, r.cap}
  THEN (CHOOSE r \in CaseTable : s \in {r.lo, r.up, r.cap}).up
  ELSE s

(***************************************************************************)
(* sqlglot AST shapes consumed by catalog/builder/sql.py                    *)
(***************************************************************************)
Ident(n, q) == [n |-> n, quoted |-> q]

\* exp.Table: `this` is an Identifier; the `db` property is the text of the
\* schema qualifier ("" when absent), not the Identifier node.
TableExp(db, this) == [dbid |-> db, this |-> this]
NoDb == Ident("", FALSE)
TableDb(t) == t.dbid.n

\* inline column constraints (ColumnConstraint.kind)
PKC == [kind |-> "PrimaryKeyColumnConstraint"]
NNC == [kind |-> "NotNullColumnConstraint"]
\* inline UNIQUE: UniqueColumnConstraint with this = None
UQC == [kind |-> "UniqueColumnConstraint", this |-> [cls |-> "None"], expressions |-> <<>>]
RefC(tbl, cols) == [kind |-> "Reference",
                    this |-> [cls |-> "Schema", this |-> tbl, expressions |-> cols]]

ColumnDef(name, cons, ty) == [e |-> "ColumnDef", this |-> name, constraints |-> cons, kind |-> ty]
\* PRIMARY KEY (c1, ...): each expression is Ordered(Column(Identifier))
PrimaryKey(cols) == [e |-> "PrimaryKey", expressions |-> cols]
ForeignKey(cols, tbl, refcols) ==
  [e |-> "ForeignKey", expressions |-> cols,
   reference |-> [this |-> [cls |-> "Schema", this |-> tbl, expressions |-> refcols]]]
\* UNIQUE (c1, ...): the column list sits in `this` (a Schema); the node's
\* own `expressions` argument is empty.
UniqueTable(cols) == [e |-> "UniqueColumnConstraint",
                      this |-> [cls |-> "Schema", this |-> NoneV, expressions |-> cols],
                      expressions |-> <<>>]

\* CONSTRAINT name <constraint>: an exp.Constraint whose expressions hold the
\* named PRIMARY KEY / FOREIGN KEY / UNIQUE node, one level below the body
NamedConstraint(name, inner) == [e |-> "Constraint", this |-> name, expressions |-> <<inner>>]

\* DataType: `this` is the type enum value, `expressions` the type arguments
DataType(dt, args) == [this |-> dt, expressions |-> args]
\* type arguments: a bare Literal, or a DataTypeParam wrapping one
Lit(v, isint) == [cls |-> "Literal", name |-> v, is_int |-> isint]
Param(l) == [cls |-> "DataTypeParam", this |-> l]
VarArg == [cls |-> "Var", name |-> "MAX"]

CreateTable(tbl, body) == [cls |-> "Create", kind |-> "TABLE", this |-> tbl, body |-> body]
CreateView(tbl) == [cls |-> "Create", kind |-> "VIEW", this |-> tbl, body |-> <<>>]
NoTable == TableExp(NoDb, Ident("", FALSE))
SelectStmt == [cls |-> "Select", kind |-> NoneV, this |-> NoTable, body |-> <<>>]
\* sqlglot.parse("") and whitespace-only text give [None]
NoStmt == [cls |-> "None", kind |-> NoneV, this |-> NoTable, body |-> <<>>]

SearchPath == "public"

(***************************************************************************)
(* catalog/builder/sql.py helpers                                          *)
(***************************************************************************)
\* _get_identifier_name
_get_identifier_name(id) == IF id.quoted THEN id.n ELSE Lower(id.n)

\* _get_table_name (table_exp.this is always an Identifier here)
_get_table_name(t) == _get_identifier_name(t.this)

\* _get_schema_name: table_exp.db is a str, so the Identifier branch is dead
_get_schema_name(t, default) ==
  IF TableDb(t) # "" THEN Lower(TableDb(t)) ELSE default

\* _get_column_name (ColumnDef.this / Column.this is an Identifier)
_get_column_name(c) == _get_identifier_name(c)

\* int() of an integer literal's text
ToInt(str) == CASE str = "10" -> 10 [] str = "2" -> 2 [] str = "8" -> 8

\* _extract_datatype: <<datatype, precision, scale>>
_extract_datatype(dt) ==
  LET datatype == dt.this
      ex == dt.expressions
      isIntLit(x) == x.cls = "Literal" /\ x.is_int
      prec == IF ex # <<>> /\ datatype \in {"DECIMAL", "NUMERIC", "NUMBER", "FLOAT"}
                 /\ Len(ex) >= 1 /\ isIntLit(ex[1])
              THEN ToInt(ex[1].name) ELSE NoneInt
      scale == IF ex # <<>> /\ datatype \in {"DECIMAL", "NUMERIC", "NUMBER", "FLOAT"}
                 /\ Len(ex) = 2 /\ isIntLit(ex[2])
              THEN ToInt(ex[2].name) ELSE NoneInt
  IN <<datatype, prec, scale>>

HasConstraint(c, k) == \E i \in DOMAIN c.constraints : c.constraints[i].kind = k

(***************************************************************************)
(* The Catalog (catalog/catalog.py, not in src: modelled from spec 4.1).   *)
(* A catalog maps <<schema, table>> to a table with columns and unique     *)
(* constraints; lookup auto-vivifies the schema and the table.             *)
(***************************************************************************)
EmptyTable == [columns |-> <<>>, unique_constraints |-> <<>>]

Vivify(cat, key) ==
  IF key \in DOMAIN cat THEN cat
  ELSE [k \in DOMAIN cat \cup {key} |-> IF k = key THEN EmptyTable ELSE cat[k]]

add_column(cat, key, col) ==
  LET c == Vivify(cat, key) IN
  [c EXCEPT ![key].columns = Append(@, col)]

add_unique_constraint(cat, key, cols, ctype) ==
  LET c == Vivify(cat, key) IN
  [c EXCEPT ![key].unique_constraints = Append(@, [columns |-> cols, constraint_type |-> ctype])]

EmptyCatalog == [k \in {} |-> EmptyTable]

Schemas(cat) == {k[1] : k \in DOMAIN cat}

(***************************************************************************)
(* build_catalog_from_sql, one CREATE TABLE statement                      *)
(***************************************************************************)
\* fks[fk_col_name] = (ref_schema_name, ref_table_name, ref_col_name) over zip(...)
RECURSIVE ZipFks(_, _, _, _, _, _)
ZipFks(m, cs, rs, sch, tbl, i) ==
  IF i > Len(cs) \/ i > Len(rs) THEN m
  ELSE LET k == _get_identifier_name(cs[i])
           v == [schema |-> sch, table |-> tbl, column |-> _get_identifier_name(rs[i])]
       IN ZipFks([x \in DOMAIN m \cup {k} |-> IF x = k THEN v ELSE m[x]], cs, rs, sch, tbl, i + 1)

\* "Process table-level Foreign Key constraints"
RECURSIVE TableFks(_, _, _)
TableFks(m, fk_exps, i) ==
  IF i > Len(fk_exps) THEN m
  ELSE LET ref_schema_exp == fk_exps[i].reference.this
           ref_table_exp == ref_schema_exp.this
       IN TableFks(ZipFks(m, fk_exps[i].expressions, ref_schema_exp.expressions,
                          _get_schema_name(ref_table_exp, SearchPath),
                          _get_table_name(ref_table_exp), 1),
                   fk_exps, i + 1)

InlineRefs(c) == SelectSeq(c.constraints, LAMBDA x : x.kind = "Reference")

\* table-level mapping consulted before the inline REFERENCES
ColumnFkTableFirst(c, fks) ==
  LET column_name == _get_column_name(c.this) IN
  IF column_name \in DOMAIN fks
  THEN <<fks[column_name].schema, fks[column_name].table, fks[column_name].column>>
  ELSE IF InlineRefs(c) # <<>>
  THEN LET fk_schema_exp == InlineRefs(c)[1].this IN
       <<_get_schema_name(fk_schema_exp.this, SearchPath),
         _get_table_name(fk_schema_exp.this),
         _get_identifier_name(fk_schema_exp.expressions[1])>>
  ELSE <<NoneV, NoneV, NoneV>>

\* "Foreign Key handling" of one column: <<fk_schema, fk_table, fk_column>>
ColumnFk(c, fks) ==
  LET column_name == _get_column_name(c.this) IN
  IF InlineRefs(c) # <<>>
  THEN LET fk_schema_exp == InlineRefs(c)[1].this IN
       <<_get_schema_name(fk_schema_exp.this, SearchPath),
         _get_table_name(fk_schema_exp.this),
         _get_identifier_name(fk_schema_exp.expressions[1])>>
  ELSE IF column_name \in DOMAIN fks
  THEN <<fks[column_name].schema, fks[column_name].table, fks[column_name].column>>
  ELSE <<NoneV, NoneV, NoneV>>

\* the Column added to the catalog for column definition c
ColumnRecord(c, fks) ==
  LET dt == _extract_datatype(c.kind)
      fk == ColumnFk(c, fks)
  IN [name |-> _get_column_name(c.this), column_type |-> dt[1],
      numeric_precision |-> dt[2], numeric_scale |-> dt[3],
      is_nullable |-> ~HasConstraint(c, "NotNullColumnConstraint"),
      fk_schema |-> fk[1], fk_table |-> fk[2], fk_column |-> fk[3]]

RECURSIVE AddColumns(_, _, _, _, _)
AddColumns(cat, key, cols, fks, i) ==
  IF i > Len(cols) THEN cat
  ELSE AddColumns(add_column(cat, key, ColumnRecord(cols[i], fks)), key, cols, fks, i + 1)

RECURSIVE AddUniques(_, _, _, _)
AddUniques(cat, key, sets, i) ==
  IF i > Len(sets) THEN cat
  ELSE AddUniques(add_unique_constraint(cat, key, sets[i], "UNIQUE"), key, sets, i + 1)

MapNames(s) == {_get_identifier_name(s[i]) : i \in DOMAIN s}

\* statement.find_all(cls) over the table-level nodes, breadth first: the
\* unnamed nodes of the body (depth 2 under Create > Schema) in order, then
\* the nodes wrapped in CONSTRAINT name (depth 3) in order
FindAllTableLevel(body, cls) ==
  LET named == SelectSeq(body, LAMBDA x : x.e = "Constraint" /\ x.expressions[1].e = cls) IN
  SelectSeq(body, LAMBDA x : x.e = cls)
  \o [i \in DOMAIN named |-> named[i].expressions[1]]

\* statement.find_all(exp.UniqueColumnConstraint), breadth first: the
\* table-level nodes, then the inline ones of each column (depth 4, under
\* ColumnDef > ColumnConstraint)
UniqueExps(body, column_exps) ==
  LET inl == SelectSeq(column_exps, LAMBDA c : HasConstraint(c, "UniqueColumnConstraint")) IN
  FindAllTableLevel(body, "UniqueColumnConstraint")
  \o [i \in DOMAIN inl |-> UQC]

\* "Process table-level Primary Key constraint": statement.find(exp.PrimaryKey)
\* is the first table-level node found breadth first; its columns are found as exp.Column
TablePkColumnsFirstOnly(pk_exps) ==
  IF pk_exps = <<>> THEN {} ELSE {_get_column_name(pk_exps[1].expressions[1])}

TablePkColumns(pk_exps) ==
  IF pk_exps = <<>> THEN {}
  ELSE {_get_column_name(pk_exps[1].expressions[i]) : i \in DOMAIN pk_exps[1].expressions}

\* assert len(pk_col_names) > 0 (run without -O)
PkAssertSkipped(pk_col_names) == TRUE

PkAssertHolds(pk_col_names) == Cardinality(pk_col_names) > 0

\* the body of the for-loop of build_catalog_from_sql; acc = [err, cat]
ProcessStatement(stmt, acc) ==
  LET table_exp == stmt.this
      key == <<_get_schema_name(table_exp, SearchPath), _get_table_name(table_exp)>>
      body == stmt.body
      column_exps == SelectSeq(body, LAMBDA x : x.e = "ColumnDef")
      pk_exps == FindAllTableLevel(body, "PrimaryKey")
      fk_exps == FindAllTableLevel(body, "ForeignKey")
      unique_exps == UniqueExps(body, column_exps)
      fks == TableFks([x \in {} |-> NoneV], fk_exps, 1)
      inline_pk == {_get_column_name(column_exps[i].this) :
                      i \in {j \in DOMAIN column_exps : HasConstraint(column_exps[j], "PrimaryKeyColumnConstraint")}}
      unique_cols == SelectSeq(column_exps, LAMBDA c : HasConstraint(c, "UniqueColumnConstraint"))
      inline_unique == [i \in DOMAIN unique_cols |-> {_get_column_name(unique_cols[i].this)}]
      table_pk == TablePkColumns(pk_exps)
      pk_col_names == inline_pk \cup table_pk
      ref_index_error == \E i \in DOMAIN column_exps :
                           InlineRefs(column_exps[i]) # <<>> /\ InlineRefs(column_exps[i])[1].this.expressions = <<>>
      unique_assert_error == \E i \in DOMAIN unique_exps : unique_exps[i].this.cls # "Schema"
      table_unique == [i \in DOMAIN unique_exps |-> MapNames(unique_exps[i].expressions)]
      cat1 == AddColumns(acc.cat, key, column_exps, fks, 1)
      cat2 == add_unique_constraint(cat1, key, pk_col_names, "PRIMARY_KEY")
      cat3 == AddUniques(cat2, key, inline_unique \o table_unique, 1)
  IN IF ref_index_error \/ unique_assert_error \/ ~PkAssertHolds(pk_col_names)
     THEN [err |-> TRUE, cat |-> acc.cat]
     ELSE [err |-> FALSE, cat |-> cat3]

RECURSIVE ProcessStatements(_, _, _)
ProcessStatements(stmts, i, acc) ==
  IF i > Len(stmts) \/ acc.err THEN acc
  ELSE ProcessStatements(stmts, i + 1, ProcessStatement(stmts[i], acc))

\* filter keeping every CREATE statement
IsCreateAny(stmt) == stmt.cls = "Create"

IsCreateTable(stmt) == stmt.cls = "Create" /\ stmt.kind # NoneV /\ Upper(stmt.kind) = "TABLE"

\* build_catalog_from_sql: [err, cat]; a parse failure raises before any work
build_catalog_from_sql(input) ==
  IF ~input.parsed THEN [err |-> TRUE, cat |-> EmptyCatalog]
  ELSE ProcessStatements(SelectSeq(input.stmts, IsCreateTable), 1,
                         [err |-> FALSE, cat |-> EmptyCatalog])


(***************************************************************************)
(* Inputs: parsed DDL statement lists                                      *)
(***************************************************************************)
MaxBody == 3
MaxStmts == 2

BSeq(S, n) == UNION {[1..k -> S] : k \in 0..n}

IdU == Ident("Id", FALSE)
IdQ == Ident("Id", TRUE)
idU == Ident("id", FALSE)
IntType == DataType("INT", <<>>)

ColPk == ColumnDef(IdU, <<PKC>>, IntType)
ColPkQuoted == ColumnDef(IdQ, <<PKC>>, IntType)
ColNotNull == ColumnDef(idU, <<NNC>>, IntType)
ColRef == ColumnDef(idU, <<RefC(TableExp(NoDb, Ident("Other", FALSE)), <<Ident("x", FALSE)>>)>>, IntType)
ColUnique == ColumnDef(idU, <<UQC>>, IntType)
TablePk == PrimaryKey(<<IdQ, idU>>)
TableFk1 == ForeignKey(<<idU>>, TableExp(NoDb, Ident("Other", TRUE)), <<Ident("y", FALSE)>>)
TableFk2 == ForeignKey(<<idU, IdQ>>, TableExp(Ident("Sch", TRUE), Ident("Other", FALSE)),
                       <<Ident("z", FALSE), Ident("x", TRUE)>>)
TableUnique == UniqueTable(<<IdQ>>)
NamedPk == NamedConstraint(Ident("pk", FALSE), PrimaryKey(<<idU, IdQ>>))
NamedFk == NamedConstraint(Ident("fk", FALSE),
                           ForeignKey(<<idU>>, TableExp(NoDb, Ident("Other", FALSE)), <<Ident("z", FALSE)>>))
NamedUnique == NamedConstraint(Ident("uq", FALSE), UniqueTable(<<idU>>))

Elements == {ColPk, ColPkQuoted, ColNotNull, ColRef, ColUnique, TablePk, TableFk1, TableFk2, TableUnique,
             NamedPk, NamedFk, NamedUnique}

TUsers == TableExp(NoDb, Ident("Users", FALSE))
TUsersQuoted == TableExp(NoDb, Ident("Users", TRUE))
TSchUsers == TableExp(Ident("Sch", TRUE), Ident("Users", FALSE))
Tables == {TUsers, TUsersQuoted, TSchUsers}

SingleStatements == {<<CreateTable(t, b)>> : t \in Tables, b \in BSeq(Elements, MaxBody) \ {<<>>}}
SmallStatements == {CreateTable(TUsers, <<ColPk>>), CreateTable(TUsers, <<ColPkQuoted, TablePk>>),
                    CreateTable(TSchUsers, <<ColNotNull>>), CreateView(TUsers), SelectStmt, NoStmt}
DdlInputs == {[parsed |-> TRUE, stmts |-> s] : s \in SingleStatements \cup BSeq(SmallStatements, MaxStmts)}
             \cup {[parsed |-> FALSE, stmts |-> <<>>]}

(***************************************************************************)
(* State machine                                                           *)
(***************************************************************************)
VARIABLES ddl, catalog, status

catVars == <<ddl, catalog, status>>

InitCat ==
  /\ ddl \in DdlInputs
  /\ catalog = [present |-> FALSE, tables |-> EmptyCatalog]
  /\ status = "idle"

\* one call of build_catalog_from_sql on the parsed input ddl
BuildCatalog ==
  /\ status = "idle"
  /\ LET r == build_catalog_from_sql(ddl) IN
     /\ catalog' = IF r.err THEN [present |-> FALSE, tables |-> EmptyCatalog]
                   ELSE [present |-> TRUE, tables |-> r.cat]
     /\ status' = IF r.err THEN "error" ELSE "ok"
  /\ UNCHANGED ddl



(***************************************************************************)
(* Properties of build_catalog_from_sql                                    *)
(***************************************************************************)
Creates == SelectSeq(ddl.stmts, IsCreateTable)
StmtKey(stmt) == <<_get_schema_name(stmt.this, SearchPath), _get_table_name(stmt.this)>>
CreatesOf(k) == SelectSeq(Creates, LAMBDA st : StmtKey(st) = k)
ColumnDefs(stmt) == SelectSeq(stmt.body, LAMBDA x : x.e = "ColumnDef")
\* a table-level node of the body, named (CONSTRAINT c ...) or not, unwrapped
Unwrapped(x) == IF x.e = "Constraint" THEN x.expressions[1] ELSE x

\* the table-level nodes of class cls in declaration order
DeclaredNodes(stmt, cls) ==
  LET sel == SelectSeq(stmt.body, LAMBDA x : Unwrapped(x).e = cls) IN
  [i \in DOMAIN sel |-> Unwrapped(sel[i])]

ForeignKeys(stmt) == DeclaredNodes(stmt, "ForeignKey")
PkConstraints(k) == SelectSeq(catalog.tables[k].unique_constraints,
                              LAMBDA u : u.constraint_type = "PRIMARY_KEY")

RECURSIVE ConcatSeqs(_)
ConcatSeqs(ss) == IF ss = <<>> THEN <<>> ELSE Head(ss) \o ConcatSeqs(Tail(ss))

\* <<statement, column definition>> for each column added to table k, in order
ColumnsOfKey(k) ==
  ConcatSeqs([i \in DOMAIN CreatesOf(k) |->
               [j \in DOMAIN ColumnDefs(CreatesOf(k)[i]) |->
                  <<CreatesOf(k)[i], ColumnDefs(CreatesOf(k)[i])[j]>>]])

\* C1: after a build that does not fail, every table of the catalog has
\* exactly one PRIMARY_KEY constraint, also when two statements create the
\* same (schema, table).
C1_OnePrimaryKey ==
  status = "ok" => \A k \in DOMAIN catalog.tables : Len(PkConstraints(k)) = 1

\* the PRIMARY KEY column set the claims expect for one statement: inline
\* markers plus every column of the table-level PRIMARY KEY node
ClaimedPk(stmt) ==
  {_get_identifier_name(ColumnDefs(stmt)[i].this) :
     i \in {j \in DOMAIN ColumnDefs(stmt) : HasConstraint(ColumnDefs(stmt)[j], "PrimaryKeyColumnConstraint")}}
  \cup UNION {{_get_identifier_name(DeclaredNodes(stmt, "PrimaryKey")[i].expressions[j]) :
                 j \in DOMAIN DeclaredNodes(stmt, "PrimaryKey")[i].expressions} :
              i \in DOMAIN DeclaredNodes(stmt, "PrimaryKey")}

C3_FatalAbort ==
  (status # "idle" /\ (~ddl.parsed \/ \E i \in DOMAIN Creates : ClaimedPk(Creates[i]) = {}))
    => status = "error" /\ ~catalog.present

C3_Witness ==
  /\ status = "error" /\ ddl.parsed /\ Len(Creates) = 2
  /\ ClaimedPk(Creates[1]) # {} /\ ClaimedPk(Creates[2]) = {}


\* <<foreign key clause, position>> pairs of a statement naming column `name`
\* with a referenced column at the same position
FkPairs(fkseq, name) ==
  UNION {{<<f, i>> : i \in {n \in DOMAIN fkseq[f].expressions :
                              /\ n <= Len(fkseq[f].reference.this.expressions)
                              /\ _get_identifier_name(fkseq[f].expressions[n]) = name}} :
         f \in DOMAIN fkseq}

FkPairTarget(fkseq, p) ==
  LET ref == fkseq[p[1]].reference.this IN
  <<_get_schema_name(ref.this, SearchPath), _get_table_name(ref.this),
    _get_identifier_name(ref.expressions[p[2]])>>

InlineTarget(c) ==
  LET ref == InlineRefs(c)[1].this IN
  <<_get_schema_name(ref.this, SearchPath), _get_table_name(ref.this),
    _get_identifier_name(ref.expressions[1])>>

EmittedFk(col) == <<col.fk_schema, col.fk_table, col.fk_column>>

\* C4 (as stated): an inline REFERENCES wins; otherwise a column named at
\* position i of a table-level FOREIGN KEY (c1..cn) REFERENCES t(r1..rn)
\* references (schema of t, t, ri); otherwise no foreign key.
C4_FkResolution ==
  status = "ok" =>
    \A k \in DOMAIN catalog.tables :
      \A j \in DOMAIN ColumnsOfKey(k) :
        LET st == ColumnsOfKey(k)[j][1]
            c == ColumnsOfKey(k)[j][2]
            fk == EmittedFk(catalog.tables[k].columns[j])
            pairs == FkPairs(ForeignKeys(st), _get_identifier_name(c.this))
        IN IF InlineRefs(c) # <<>> THEN fk = InlineTarget(c)
           ELSE IF pairs # {} THEN \A p \in pairs : fk = FkPairTarget(ForeignKeys(st), p)
           ELSE fk = <<NoneV, NoneV, NoneV>>

\* the FOREIGN KEY clauses in the order the mapping is filled: the unnamed
\* clauses in declaration order, then the CONSTRAINT name FOREIGN KEY clauses
\* in declaration order
ScanOrderFks(stmt) ==
  LET plain == SelectSeq(stmt.body, LAMBDA x : x.e = "ForeignKey")
      named == SelectSeq(stmt.body, LAMBDA x : x.e = "Constraint" /\ Unwrapped(x).e = "ForeignKey")
  IN plain \o [i \in DOMAIN named |-> Unwrapped(named[i])]

\* the last pairing in that order: later clause, then later position
LastPair(pairs) ==
  CHOOSE p \in pairs : \A q \in pairs : q[1] < p[1] \/ (q[1] = p[1] /\ q[2] <= p[2])

\* C4 (amended): as C4, but when several table-level pairings name the
\* column, the last one gives the foreign key, counting every unnamed FOREIGN
\* KEY clause (in declaration order) before every CONSTRAINT name FOREIGN KEY
\* clause (in declaration order).
C4_FkResolutionLast ==
  status = "ok" =>
    \A k \in DOMAIN catalog.tables :
      \A j \in DOMAIN ColumnsOfKey(k) :
        LET st == ColumnsOfKey(k)[j][1]
            c == ColumnsOfKey(k)[j][2]
            fk == EmittedFk(catalog.tables[k].columns[j])
            pairs == FkPairs(ScanOrderFks(st), _get_identifier_name(c.this))
        IN IF InlineRefs(c) # <<>> THEN fk = InlineTarget(c)
           ELSE IF pairs # {} THEN fk = FkPairTarget(ScanOrderFks(st), LastPair(pairs))
           ELSE fk = <<NoneV, NoneV, NoneV>>

\* a column without inline REFERENCES is named by a CONSTRAINT name FOREIGN
\* KEY clause declared before an unnamed FOREIGN KEY clause that also names
\* it, and takes its foreign key from the named clause
C4_Witness ==
  /\ status = "ok"
  /\ \E k \in DOMAIN catalog.tables : \E j \in DOMAIN ColumnsOfKey(k) :
       LET st == ColumnsOfKey(k)[j][1]
           c == ColumnsOfKey(k)[j][2]
       IN /\ InlineRefs(c) = <<>>
          /\ \E a, b \in DOMAIN st.body :
               /\ a < b
               /\ st.body[a].e = "Constraint" /\ Unwrapped(st.body[a]).e = "ForeignKey"
               /\ st.body[b].e = "ForeignKey"
               /\ FkPairs(<<Unwrapped(st.body[a])>>, _get_identifier_name(c.this)) # {}
               /\ FkPairs(<<st.body[b]>>, _get_identifier_name(c.this)) # {}
               /\ EmittedFk(catalog.tables[k].columns[j])
                    = FkPairTarget(<<Unwrapped(st.body[a])>>,
                                   LastPair(FkPairs(<<Unwrapped(st.body[a])>>, _get_identifier_name(c.this))))

\* the schema name the normalisation rule gives a table reference
ClaimedSchema(t) == IF t.dbid.n = "" THEN SearchPath ELSE _get_identifier_name(t.dbid)

\* UNIQUE constraints of table k, in the order they were added
UniqueConstraints(k) == SelectSeq(catalog.tables[k].unique_constraints,
                                  LAMBDA u : u.constraint_type = "UNIQUE")

\* the UNIQUE column sets the claim expects for one statement: {column} per
\* inline UNIQUE marker, then the listed columns of each table-level UNIQUE node
ClaimedUniques(stmt) ==
  LET ucols == SelectSeq(ColumnDefs(stmt), LAMBDA c : HasConstraint(c, "UniqueColumnConstraint"))
      tnodes == DeclaredNodes(stmt, "UniqueColumnConstraint")
  IN [i \in DOMAIN ucols |-> {_get_column_name(ucols[i].this)}]
     \o [i \in DOMAIN tnodes |-> {_get_identifier_name(tnodes[i].this.expressions[j]) :
                                   j \in DOMAIN tnodes[i].this.expressions}]

\* C13: after a build that does not fail, each table holds one UNIQUE
\* constraint per inline UNIQUE column (set {column}) and one per table-level
\* UNIQUE (...) node (set of its listed columns), none with an empty column set.
C13_UniqueConstraints ==
  status = "ok" =>
    \A k \in DOMAIN catalog.tables :
      /\ [i \in DOMAIN UniqueConstraints(k) |-> UniqueConstraints(k)[i].columns]
           = ConcatSeqs([i \in DOMAIN CreatesOf(k) |-> ClaimedUniques(CreatesOf(k)[i])])
      /\ \A i \in DOMAIN UniqueConstraints(k) : UniqueConstraints(k)[i].columns # {}

\* C6: quoted identifiers keep their text and unquoted ones are lower-cased,
\* for schema and table names, column names and foreign-key targets alike.
C6_Normalization ==
  status = "ok" =>
    /\ DOMAIN catalog.tables =
         {<<ClaimedSchema(Creates[i].this), _get_identifier_name(Creates[i].this.this)>> : i \in DOMAIN Creates}
    /\ \A k \in DOMAIN catalog.tables : \A j \in DOMAIN ColumnsOfKey(k) :
         LET c == ColumnsOfKey(k)[j][2]
             col == catalog.tables[k].columns[j]
         IN /\ col.name = _get_identifier_name(c.this)
            /\ InlineRefs(c) # <<>> =>
                 col.fk_schema = ClaimedSchema(InlineRefs(c)[1].this.this)

\* a CREATE TABLE statement as the claims describe it
ClaimIsCreateTable(stmt) == stmt.cls = "Create" /\ stmt.kind = "TABLE"

\* C7: empty input yields a Catalog with no schemas; statements other than
\* CREATE TABLE are skipped without error, so the result is that of the
\* CREATE TABLE statements alone.
C7_SkipOthers ==
  (status # "idle" /\ ddl.parsed) =>
    LET r == build_catalog_from_sql([parsed |-> TRUE, stmts |-> SelectSeq(ddl.stmts, ClaimIsCreateTable)]) IN
    /\ (status = "ok") = ~r.err
    /\ status = "ok" => catalog.tables = r.cat
    /\ SelectSeq(ddl.stmts, ClaimIsCreateTable) = <<>> =>
         status = "ok" /\ catalog.present /\ Schemas(catalog.tables) = {}

C7_Witness ==
  /\ status = "ok"
  /\ \E i \in DOMAIN ddl.stmts : ~ClaimIsCreateTable(ddl.stmts[i])
  /\ \E i \in DOMAIN ddl.stmts : ClaimIsCreateTable(ddl.stmts[i])


(***************************************************************************)
(* _extract_datatype on the DataType nodes the parser produces             *)
(***************************************************************************)
MaxArgs == 3

TypeValues == {"DECIMAL", "FLOAT", "VARCHAR", "INT", "DOUBLE"}
TypeArgs == {Lit("10", TRUE), Lit("1.5", FALSE), Param(Lit("10", TRUE)), Param(Lit("2", TRUE)),
             Param(Lit("1.5", FALSE)), VarArg}
DataTypes == {DataType(t, a) : t \in TypeValues, a \in BSeq(TypeArgs, MaxArgs)}

VARIABLES dtype, dres

NoDataType == DataType("NONE", <<>>)

InitType ==
  /\ dtype \in DataTypes
  /\ dres = <<>>

\* one call of _extract_datatype on the kind of a column definition
ExtractDatatype ==
  /\ dres = <<>>
  /\ dres' = _extract_datatype(dtype)
  /\ UNCHANGED dtype

\* an argument written as an integer literal, bare or wrapped
IsIntArg(x) ==
  \/ x.cls = "Literal" /\ x.is_int
  \/ x.cls = "DataTypeParam" /\ x.this.cls = "Literal" /\ x.this.is_int

ArgText(x) == IF x.cls = "DataTypeParam" THEN x.this.name ELSE x.name

ClaimedNumeric(dt) ==
  LET num == dt.this \in {"DECIMAL", "NUMERIC", "NUMBER", "FLOAT"}
      ex == dt.expressions
  IN <<dt.this,
       IF num /\ Len(ex) >= 1 /\ IsIntArg(ex[1]) THEN ToInt(ArgText(ex[1])) ELSE NoneInt,
       IF num /\ Len(ex) >= 2 /\ IsIntArg(ex[2]) THEN ToInt(ArgText(ex[2])) ELSE NoneInt>>

\* C5: precision and scale are set only for DECIMAL, NUMERIC, NUMBER and
\* FLOAT, from the first and second type arguments when each is an integer
\* literal; NUMERIC(10,2) gives (10, 2), FLOAT(8) gives (8, None).
C5_NumericPrecision == dres # <<>> => dres = ClaimedNumeric(dtype)



(***************************************************************************)
(* query/extractors.py: sqlparse token trees                               *)
(***************************************************************************)
\* a lexer token: ttype and value
Tok(tt, v) == [tt |-> tt, v |-> v]
NoTok == Tok("None", "")

Leaf(t, i) == [g |-> FALSE, cls |-> "Token", tok |-> t, toks |-> <<>>, flat |-> <<t>>, start |-> i]
Group(cls, toks, flat, i) == [g |-> TRUE, cls |-> cls, tok |-> NoTok, toks |-> toks, flat |-> flat, start |-> i]

\* TokenList.value: the text of all its leaf tokens in order
RECURSIVE ConcatValues(_)
ConcatValues(ts) == IF ts = <<>> THEN "" ELSE Head(ts).v \o ConcatValues(Tail(ts))

TokenValue(n) == ConcatValues(n.flat)

\* sqlparse grouping of a token sequence: parentheses, function calls
\* (a name followed by a parenthesis) and identifiers
RECURSIVE ParseItem(_, _), ParseFrom(_, _)
ParseItem(ts, i) ==
  IF ts[i].v = "("
  THEN LET inner == ParseFrom(ts, i + 1)
           c == inner.pos
       IN IF c <= Len(ts)
          THEN [node |-> Group("Parenthesis", <<Leaf(ts[i], i)>> \o inner.nodes \o <<Leaf(ts[c], c)>>,
                               SubSeq(ts, i, c), i),
                next |-> c + 1]
          ELSE [node |-> Group("Parenthesis", <<Leaf(ts[i], i)>> \o inner.nodes, SubSeq(ts, i, Len(ts)), i),
                next |-> c]
  ELSE IF ts[i].tt = "Name" /\ i < Len(ts) /\ ts[i + 1].v = "("
  THEN LET par == ParseItem(ts, i + 1) IN
       [node |-> Group("Function", <<Group("Identifier", <<Leaf(ts[i], i)>>, <<ts[i]>>, i), par.node>>,
                       SubSeq(ts, i, par.next - 1), i),
        next |-> par.next]
  ELSE IF ts[i].tt = "Name"
  THEN [node |-> Group("Identifier", <<Leaf(ts[i], i)>>, <<ts[i]>>, i), next |-> i + 1]
  ELSE [node |-> Leaf(ts[i], i), next |-> i + 1]

ParseFrom(ts, i) ==
  IF i > Len(ts) \/ ts[i].v = ")" THEN [nodes |-> <<>>, pos |-> i]
  ELSE LET it == ParseItem(ts, i)
           rest == ParseFrom(ts, it.next)
       IN [nodes |-> <<it.node>> \o rest.nodes, pos |-> rest.pos]

\* group_comparison: an operand, a comparison operator and an operand become
\* one Comparison group (applied inside every group first)
IsComparisonOp(n) == ~n.g /\ n.tok.tt = "Comparison"

ValidOperand(n) ==
  \/ n.g /\ n.cls \in {"Parenthesis", "Function", "Identifier"}
  \/ ~n.g /\ n.tok.tt \in {"Integer", "Name", "String"}

RECURSIVE ScanComparisons(_)
ScanComparisons(ns) ==
  IF Len(ns) < 3 THEN ns
  ELSE IF IsComparisonOp(ns[2]) /\ ValidOperand(ns[1]) /\ ValidOperand(ns[3])
  THEN << Group("Comparison", <<ns[1], ns[2], ns[3]>>, ns[1].flat \o ns[2].flat \o ns[3].flat, ns[2].start) >>
       \o ScanComparisons(SubSeq(ns, 4, Len(ns)))
  ELSE <<ns[1]>> \o ScanComparisons(Tail(ns))

RECURSIVE GroupComparisons(_)
GroupComparisons(ns) ==
  ScanComparisons([i \in DOMAIN ns |-> IF ns[i].g THEN [ns[i] EXCEPT !.toks = GroupComparisons(@)]
                                      ELSE ns[i]])

\* the grouped token list of one statement
ParseStatement(ts) == GroupComparisons(ParseFrom(ts, 1).nodes)

\* sqlparse.parse: the statements of a text (no ';' in the model's texts)
SqlparseParse(ts) == IF ts = <<>> THEN <<>> ELSE <<ParseStatement(ts)>>

\* _has_select_inside: a DML token normalized to SELECT in group.flatten()
_has_select_inside(group) ==
  \E i \in DOMAIN group.flat : group.flat[i].tt = "DML" /\ Upper(group.flat[i].v) = "SELECT"

\* _inner_text_once: the value without its enclosing parentheses
_inner_text_once(p) ==
  IF Len(p.flat) >= 2 /\ p.flat[1].v = "(" /\ p.flat[Len(p.flat)].v = ")"
  THEN SubSeq(p.flat, 2, Len(p.flat) - 1) ELSE p.flat

\* the clause update at the top of the loop of _walk
WalkClause(tok, current_clause) ==
  LET c1 == IF ~tok.g /\ tok.tok.tt \in {"Keyword", "DML"} THEN Upper(tok.tok.v) ELSE current_clause
  IN IF tok.g /\ tok.cls = "Identifier" /\ Upper(TokenValue(tok)) \in {"ALL", "ANY"} THEN "ALL/ANY"
     ELSE IF ~tok.g /\ tok.tok.tt = "Comparison" THEN "COMPARISON"
     ELSE c1

\* clause given to the walk of a subquery's re-parsed text
DescentClauseKept(current_clause) == current_clause

DescentClause(current_clause) == NoneV

\* extract_subqueries_tokens._walk over a token list; returns the records
\* <<inner_text, clause, depth>> it appends, in order
RECURSIVE _walk(_, _, _), WalkStatements(_, _, _)
_walk(tokens, current_clause, depth) ==
  IF tokens = <<>> THEN <<>>
  ELSE LET tok == Head(tokens)
           cc == WalkClause(tok, current_clause)
           here ==
             IF ~tok.g THEN <<>>
             ELSE IF tok.cls = "Parenthesis" /\ _has_select_inside(tok)
             THEN LET inner == _inner_text_once(tok) IN
                  << <<inner, IF cc = NoneV THEN "UNKNOWN" ELSE cc, depth + 1>> >>
                  \o WalkStatements(SqlparseParse(inner), DescentClause(cc), depth + 1)
             ELSE _walk(tok.toks, cc, depth)
       IN here \o _walk(Tail(tokens), cc, depth)

WalkStatements(stmts, current_clause, depth) ==
  IF stmts = <<>> THEN <<>>
  ELSE _walk(Head(stmts), current_clause, depth) \o WalkStatements(Tail(stmts), current_clause, depth)

extract_subqueries_tokens(sql) == WalkStatements(SqlparseParse(sql), NoneV, 0)

ClauseWords == {"WITH", "SELECT", "FROM", "WHERE", "GROUP BY", "ORDER BY", "HAVING", "LIMIT"}

\* extract_functions: <<start of the function node, clause>> records
RECURSIVE extract_functions(_, _)
extract_functions(tokens, current_clause) ==
  IF tokens = <<>> THEN <<>>
  ELSE LET token == Head(tokens) IN
       IF ~token.g /\ token.tok.tt \in {"Keyword", "DML", "CTE"}
       THEN extract_functions(Tail(tokens),
                              IF Upper(token.tok.v) \in ClauseWords THEN Upper(token.tok.v)
                              ELSE current_clause)
       ELSE (IF token.g /\ token.cls = "Function"
             THEN << <<token.start, current_clause>> >> \o extract_functions(token.toks, current_clause)
             ELSE IF token.g THEN extract_functions(token.toks, current_clause)
             ELSE <<>>)
            \o extract_functions(Tail(tokens), current_clause)



\* extract_comparisons: <<start of the comparison node, clause>> records
RECURSIVE extract_comparisons(_, _)
extract_comparisons(tokens, current_clause) ==
  IF tokens = <<>> THEN <<>>
  ELSE LET token == Head(tokens) IN
       IF ~token.g /\ token.tok.tt \in {"Keyword", "DML", "CTE"}
       THEN extract_comparisons(Tail(tokens),
                                IF Upper(token.tok.v) \in ClauseWords THEN Upper(token.tok.v)
                                ELSE current_clause)
       ELSE (IF token.g /\ token.cls = "Comparison"
             THEN << <<token.start, current_clause>> >>
             ELSE IF token.g THEN extract_comparisons(token.toks, current_clause)
             ELSE <<>>)
            \o extract_comparisons(Tail(tokens), current_clause)

(***************************************************************************)
(* Inputs: lexed query texts                                               *)
(***************************************************************************)
MaxNest == 2

SEL == Tok("DML", "SELECT")
FROMk == Tok("Keyword", "FROM")
WHEREk == Tok("Keyword", "WHERE")
WHEREl == Tok("Keyword", "where")
EXISTSk == Tok("Keyword", "EXISTS")
INc == Tok("Comparison", "IN")
EQc == Tok("Comparison", "=")
LP == Tok("Punctuation", "(")
RP == Tok("Punctuation", ")")
XN == Tok("Name", "x")
TN == Tok("Name", "t")
UN == Tok("Name", "u")
FN == Tok("Name", "f")
ONE == Tok("Integer", "1")

\* parenthesised SELECTs and WHERE predicates nesting them up to n levels
RECURSIVE SubqOf(_), PredOf(_)
SubqOf(n) ==
  IF n = 0 THEN {}
  ELSE {<<LP, SEL, XN, FROMk, UN, RP>>}
       \cup {<<LP, SEL, XN, FROMk, UN, w>> \o p \o <<RP>> : w \in {WHEREk, WHEREl}, p \in PredOf(n - 1)}
PredOf(n) ==
  {<<XN, EQc, ONE>>, <<XN, INc, LP, ONE, RP>>}
  \cup (IF n = 0 THEN {}
        ELSE {<<XN, INc>> \o q : q \in SubqOf(n)}
             \cup {<<XN, EQc>> \o q : q \in SubqOf(n)}
             \cup {<<EXISTSk>> \o q : q \in SubqOf(n)}
             \cup {<<XN, INc, LP>> \o q \o <<RP>> : q \in SubqOf(n)}
             \cup {<<XN, EQc, FN, LP>> \o q \o <<RP>> : q \in SubqOf(n)}
             \cup {<<LP>> \o p \o <<RP>> : p \in PredOf(n - 1)})

SubqueryQueries ==
  {<<SEL, XN, FROMk, TN, WHEREk>> \o p : p \in PredOf(MaxNest)}
  \cup {<<SEL>> \o q \o <<FROMk, TN>> : q \in SubqOf(MaxNest)}
  \cup {<<SEL, XN, FROMk>> \o q : q \in SubqOf(MaxNest)}

VARIABLES qtext, subqueries, qdone

qVars == <<qtext, subqueries, qdone>>

InitSubq ==
  /\ qtext \in SubqueryQueries
  /\ subqueries = <<>>
  /\ qdone = FALSE

\* one call of extract_subqueries_tokens
ExtractSubqueries ==
  /\ ~qdone
  /\ subqueries' = extract_subqueries_tokens(qtext)
  /\ qdone' = TRUE
  /\ UNCHANGED qtext


(***************************************************************************)
(* Inputs of extract_functions                                             *)
(***************************************************************************)
GN == Tok("Name", "g")
WITHc == Tok("CTE", "WITH")
ASk == Tok("Keyword", "AS")
GroupBys == {Tok("Keyword", "GROUP BY"), Tok("Keyword", "group by"), Tok("Keyword", "GROUP  BY")}

FX == <<FN, LP, XN, RP>>
FGX == <<FN, LP, GN, LP, XN, RP, RP>>
SubF == <<LP, SEL>> \o FX \o <<FROMk, UN, RP>>
FItems == {<<XN>>, FX, FGX, SubF}

FunctionQueries ==
  {pre \o <<SEL>> \o a \o <<FROMk, TN>> \o w \o gb :
     pre \in {<<>>, <<WITHc, XN, ASk>> \o SubF},
     a \in FItems,
     w \in {<<>>} \cup {<<WHEREk>> \o b \o <<EQc, ONE>> : b \in FItems},
     gb \in {<<>>} \cup {<<k>> \o c : k \in GroupBys, c \in FItems}}

VARIABLES ftext, functions, fdone

fVars == <<ftext, functions, fdone>>

InitFunc ==
  /\ ftext \in FunctionQueries
  /\ functions = <<>>
  /\ fdone = FALSE

\* one call of extract_functions on the tokens of the parsed statement
ExtractFunctions ==
  /\ ~fdone
  /\ functions' = extract_functions(ParseStatement(ftext), "NONE")
  /\ fdone' = TRUE
  /\ UNCHANGED ftext

(***************************************************************************)
(* Inputs of extract_comparisons: the subquery texts                       *)
(***************************************************************************)
VARIABLES ctext, comparisons, cdone

cVars == <<ctext, comparisons, cdone>>

InitCmp ==
  /\ ctext \in SubqueryQueries
  /\ comparisons = <<>>
  /\ cdone = FALSE

\* one call of extract_comparisons on the tokens of the parsed statement
ExtractComparisons ==
  /\ ~cdone
  /\ comparisons' = extract_comparisons(ParseStatement(ctext), "NONE")
  /\ cdone' = TRUE
  /\ UNCHANGED ctext

(***************************************************************************)
(* remove_ctes: sqlglot query trees with an optional WITH attachment       *)
(***************************************************************************)
\* a query node: its WITH attachment (<<>> when absent, else its CTEs in order)
\* and its main body; NoAst is the absent tree
Cte(alias, body) == [alias |-> alias, this |-> body]

\* oid is the object identity of the node: trees handed in by the caller are
\* object 0, and a copy is a different object
Query(w, body) == [present |-> TRUE, with |-> w, body |-> body, oid |-> 0]

NoAst == [present |-> FALSE, with |-> <<>>, body |-> "", oid |-> 0]

RECURSIVE CteListSql(_)
CteListSql(ctes) ==
  LET c == Head(ctes)
      one == c.alias \o " AS (" \o c.this \o ")"
  IN IF Len(ctes) = 1 THEN one ELSE one \o ", " \o CteListSql(Tail(ctes))

\* Expression.sql(): the WITH clause, when attached, is rendered before the body
QuerySql(q) ==
  IF q.with = <<>> THEN q.body
  ELSE "WITH " \o CteListSql(q.with) \o " " \o q.body

\* the same object handed back instead of a copy
DeepCopyAliased(q) == q

\* copy.deepcopy: a fresh object with equal contents
DeepCopy(q) == [q EXCEPT !.oid = q.oid + 1]

\* node.set('with', None): detaches the WITH clause of that object
ClearWith(q) == [q EXCEPT !.with = <<>>]

remove_ctes(ast) ==
  IF ~ast.present THEN ""
  ELSE LET ast_copy == ClearWith(DeepCopy(ast))
       IN QuerySql(ast_copy)

\* the caller's tree after remove_ctes: the set('with', None) of the call
\* reaches it only when ast_copy is the caller's object itself
InputAfterRemoveCtes(ast) ==
  IF ~ast.present THEN ast
  ELSE IF DeepCopy(ast).oid = ast.oid THEN ClearWith(ast)
  ELSE ast

MaxCtes == 2

CteAliases == {"a", "b"}

CteBodies == {"SELECT 1", "SELECT * FROM t"}

MainBodies == {"SELECT * FROM a", "SELECT 1", "SELECT x FROM b"}

CteSeqs == UNION {[1..n -> {Cte(al, bd) : al \in CteAliases, bd \in CteBodies}] : n \in 0..MaxCtes}

QueryTrees == {Query(w, b) : w \in CteSeqs, b \in MainBodies} \cup {NoAst}

VARIABLES ast, orig, stripped, sdone

sVars == <<ast, orig, stripped, sdone>>

InitStrip ==
  /\ ast \in QueryTrees
  /\ orig = ast
  /\ stripped = ""
  /\ sdone = FALSE

\* one call of remove_ctes on the caller's tree
RemoveCtes ==
  /\ ~sdone
  /\ stripped' = remove_ctes(ast)
  /\ ast' = InputAfterRemoveCtes(ast)
  /\ sdone' = TRUE
  /\ UNCHANGED orig

(***************************************************************************)
(* Specifications                                                          *)
(***************************************************************************)
vars == <<ddl, catalog, status, dtype, dres, qtext, subqueries, qdone, ftext, functions, fdone, ctext, comparisons, cdone, ast, orig, stripped, sdone>>

IdleCat ==
  /\ ddl = [parsed |-> TRUE, stmts |-> <<>>]
  /\ catalog = [present |-> FALSE, tables |-> EmptyCatalog]
  /\ status = "idle"

IdleType == dtype = NoDataType /\ dres = <<>>

IdleSubq == qtext = <<>> /\ subqueries = <<>> /\ qdone = FALSE

IdleFunc == ftext = <<>> /\ functions = <<>> /\ fdone = FALSE

IdleCmp == ctext = <<>> /\ comparisons = <<>> /\ cdone = FALSE

IdleStrip == ast = NoAst /\ orig = NoAst /\ stripped = "" /\ sdone = FALSE

NextCat == BuildCatalog /\ UNCHANGED <<dtype, dres, qVars, fVars, cVars, sVars>>

Init == InitCat /\ IdleType /\ IdleSubq /\ IdleFunc /\ IdleCmp /\ IdleStrip

Spec == Init /\ [][NextCat]_vars

NextType == ExtractDatatype /\ UNCHANGED <<catVars, qVars, fVars, cVars, sVars>>

InitT == IdleCat /\ InitType /\ IdleSubq /\ IdleFunc /\ IdleCmp /\ IdleStrip

SpecType == InitT /\ [][NextType]_vars

InitQ == IdleCat /\ IdleType /\ InitSubq /\ IdleFunc /\ IdleCmp /\ IdleStrip

NextSubq == ExtractSubqueries /\ UNCHANGED <<catVars, dtype, dres, fVars, cVars, sVars>>

SpecSubq == InitQ /\ [][NextSubq]_vars

InitF == IdleCat /\ IdleType /\ IdleSubq /\ InitFunc /\ IdleCmp /\ IdleStrip

NextFunc == ExtractFunctions /\ UNCHANGED <<catVars, dtype, dres, qVars, cVars, sVars>>

SpecFunc == InitF /\ [][NextFunc]_vars

InitC == IdleCat /\ IdleType /\ IdleSubq /\ IdleFunc /\ InitCmp /\ IdleStrip

NextCmp == ExtractComparisons /\ UNCHANGED <<catVars, dtype, dres, qVars, fVars, sVars>>

SpecCmp == InitC /\ [][NextCmp]_vars

InitS == IdleCat /\ IdleType /\ IdleSubq /\ IdleFunc /\ IdleCmp /\ InitStrip

NextStrip == RemoveCtes /\ UNCHANGED <<catVars, dtype, dres, qVars, fVars, cVars>>

SpecStrip == InitS /\ [][NextStrip]_vars


(***************************************************************************)
(* Properties of extract_subqueries_tokens, stated on the flat text        *)
(***************************************************************************)
\* number of open parentheses after the first k tokens
ParenDepth(ts, k) ==
  Cardinality({m \in 1..k : ts[m].v = "("}) - Cardinality({m \in 1..k : ts[m].v = ")"})

\* index of the ")" closing the "(" at i
MatchClose(ts, i) ==
  CHOOSE j \in i + 1..Len(ts) :
    /\ ParenDepth(ts, j) = ParenDepth(ts, i) - 1
    /\ \A m \in i + 1..j - 1 : ParenDepth(ts, m) >= ParenDepth(ts, i)

IsSelectTok(t) == t.tt = "DML" /\ Upper(t.v) = "SELECT"

\* label a keyword, DML, ALL/ANY identifier or comparison token sets
TokenLabel(t, lab) ==
  IF t.tt \in {"Keyword", "DML"} THEN Upper(t.v)
  ELSE IF t.tt = "Name" /\ Upper(t.v) \in {"ALL", "ANY"} THEN "ALL/ANY"
  ELSE IF t.tt = "Comparison" THEN "COMPARISON"
  ELSE lab

\* records of the scope rule: a parenthesis holding a SELECT is recorded with
\* the label set so far in its own scope and its text is scanned from a
\* fresh label one level deeper; any other parenthesis is scanned with the
\* current label and depth, and its labels stay inside it
RECURSIVE ScopeRecords(_, _, _, _)
ScopeRecords(ts, i, lab, d) ==
  IF i > Len(ts) THEN <<>>
  ELSE IF ts[i].v = "("
  THEN LET j == MatchClose(ts, i)
           inner == SubSeq(ts, i + 1, j - 1)
       IN (IF \E k \in i..j : IsSelectTok(ts[k])
           THEN << <<inner, IF lab = NoneV THEN "UNKNOWN" ELSE lab, d + 1>> >>
                \o ScopeRecords(inner, 1, NoneV, d + 1)
           ELSE ScopeRecords(inner, 1, lab, d))
          \o ScopeRecords(ts, j + 1, lab, d)
  ELSE ScopeRecords(ts, i + 1, TokenLabel(ts[i], lab), d)

\* the parenthesised SELECT subqueries of a text, pre-order, with their
\* nesting level: <<inner text, depth>>
RECURSIVE SelectSubqueries(_, _, _)
SelectSubqueries(ts, i, d) ==
  IF i > Len(ts) THEN <<>>
  ELSE IF ts[i].v = "("
  THEN LET j == MatchClose(ts, i)
           inner == SubSeq(ts, i + 1, j - 1)
       IN (IF inner # <<>> /\ IsSelectTok(inner[1])
           THEN << <<inner, d + 1>> >> \o SelectSubqueries(inner, 1, d + 1)
           ELSE SelectSubqueries(inner, 1, d))
          \o SelectSubqueries(ts, j + 1, d)
  ELSE SelectSubqueries(ts, i + 1, d)

\* the spec's example, with the model's names:
\* SELECT x FROM t WHERE x IN (SELECT x FROM u WHERE x IN (SELECT x FROM u))
SpecExample ==
  <<SEL, XN, FROMk, TN, WHEREk, XN, INc, LP, SEL, XN, FROMk, UN, WHEREk, XN, INc,
    LP, SEL, XN, FROMk, UN, RP, RP>>

\* C8: every parenthesised SELECT subquery is recorded once, pre-order, as
\* (inner text, clause, depth) with depth its nesting level; for the example
\* the outer subquery is labelled WHERE, COMPARISON or ALL/ANY.
C8_SubqueryDepth ==
  qdone =>
    /\ [k \in DOMAIN subqueries |-> <<subqueries[k][1], subqueries[k][3]>>]
         = SelectSubqueries(qtext, 1, 0)
    /\ qtext = SpecExample =>
         Len(subqueries) = 2 /\ subqueries[1][2] \in {"WHERE", "COMPARISON", "ALL/ANY"}

\* C9: the walk of a subquery's text starts from no clause, so a nested
\* subquery's label comes only from tokens of its enclosing subquery (UNKNOWN
\* when there is none); a parenthesis without SELECT is not recorded and is
\* walked at the same depth and clause.
C9_ClauseScope == qdone => subqueries = ScopeRecords(qtext, 1, NoneV, 0)

\* a nested subquery labelled UNKNOWN inside a subquery labelled otherwise,
\* in a text that also has a parenthesis without SELECT
C9_Witness ==
  /\ qdone
  /\ \E k \in DOMAIN subqueries : subqueries[k][3] = 2 /\ subqueries[k][2] = "UNKNOWN"
  /\ \E k \in DOMAIN subqueries : subqueries[k][3] = 1 /\ subqueries[k][2] # "UNKNOWN"
  /\ \E k \in 1..Len(qtext) - 1 : qtext[k].v = "(" /\ qtext[k + 1] = ONE


(***************************************************************************)
(* Properties of extract_functions, stated on the flat text                *)
(***************************************************************************)
\* a function call: a name directly followed by "("
FunctionStarts(ts) == {i \in 1..Len(ts) - 1 : ts[i].tt = "Name" /\ ts[i + 1].v = "("}

\* a keyword's words, upper-cased and single-spaced
KeywordWords(v) ==
  CASE v = "GROUP  BY" -> "GROUP BY" [] v = "group by" -> "GROUP BY" [] OTHER -> Upper(v)

\* token j lies in the group of token i or in an enclosing group
Visible(ts, j, i) == \A m \in j..i - 1 : ParenDepth(ts, m) >= ParenDepth(ts, j)

\* the most recent clause keyword before token i in its group or an
\* enclosing group
ClaimedClause(ts, i) ==
  LET vis == {j \in 1..i - 1 : /\ ts[j].tt \in {"Keyword", "DML", "CTE"}
                               /\ KeywordWords(ts[j].v) \in ClauseWords
                               /\ Visible(ts, j, i)}
  IN IF vis = {} THEN "NONE"
     ELSE KeywordWords(ts[CHOOSE j \in vis : \A m \in vis : m <= j].v)

\* C10: every function call, nested ones included, is recorded once, with
\* the clause of the most recent clause keyword earlier in its group or an
\* enclosing group.
C10_FunctionClauses ==
  fdone =>
    /\ Len(functions) = Cardinality(FunctionStarts(ftext))
    /\ {functions[k][1] : k \in DOMAIN functions} = FunctionStarts(ftext)
    /\ \A k \in DOMAIN functions : functions[k][2] = ClaimedClause(ftext, functions[k][1])


(***************************************************************************)
(* Properties of extract_comparisons                                       *)
(***************************************************************************)
\* operator positions of every Comparison group anywhere in a token tree
RECURSIVE ComparisonNodes(_)
ComparisonNodes(ns) ==
  UNION {(IF ns[i].g /\ ns[i].cls = "Comparison" THEN {ns[i].start} ELSE {})
         \cup (IF ns[i].g THEN ComparisonNodes(ns[i].toks) ELSE {}) : i \in DOMAIN ns}

\* C11: every comparison node is recorded once with its clause, including
\* comparisons nested in an operand of another comparison.
C11_AllComparisons ==
  cdone =>
    /\ Len(comparisons) = Cardinality(ComparisonNodes(ParseStatement(ctext)))
    /\ {comparisons[k][1] : k \in DOMAIN comparisons} = ComparisonNodes(ParseStatement(ctext))
    /\ \A k \in DOMAIN comparisons : comparisons[k][2] = ClaimedClause(ctext, comparisons[k][1])


(***************************************************************************)
(* Properties of remove_ctes                                               *)
(***************************************************************************)
\* C12: the caller's tree is unchanged by the call; an absent tree gives '';
\* a query with CTEs gives its rendering with the WITH clause cut off; a query
\* without CTEs gives its own rendering.
C12_RemoveCtes ==
  sdone =>
    /\ ast = orig
    /\ ~orig.present => stripped = ""
    /\ orig.present /\ orig.with # <<>> =>
         QuerySql(orig) = "WITH " \o CteListSql(orig.with) \o " " \o stripped
    /\ orig.present /\ orig.with = <<>> => stripped = QuerySql(orig)

C12_Witness == sdone /\ orig.present /\ Len(orig.with) = 2 /\ stripped = orig.body

====
